---- MODULE Spec2Model ----
(***************************************************************************)
(* Verification model of the highlight detection core of AI_Event:         *)
(*   video_processing/audio_analyzer.py      AudioAnalyzer.detect_applause *)
(*   video_processing/face_analyzer.py       FaceAnalyzer                  *)
(*   video_processing/highlight_detection.py HighlightDetector             *)
(*                                                                         *)
(* Times are integers counting tenths of a second (0.5s is 5, 2.0s is 20). *)
(* Ratios are exact fractions [num, den] with den > 0.                     *)
(* Python's None is the record None; a dict is a record whose DOMAIN is    *)
(* the set of its keys, so a missing key (KeyError) is a DOMAIN test.      *)
(***************************************************************************)
EXTENDS Integers, Sequences, FiniteSets, TLC

VARIABLES
    \* AudioAnalyzer.detect_applause: the grouping loop over onset_times
    ap_onsets,            \* onset_times, ascending
    ap_min_duration,      \* min_duration argument
    ap_i,                 \* number of onsets consumed by the for loop
    ap_current_segment,   \* current_segment
    ap_segments,          \* applause_segments
    ap_pc,                \* "loop" | "done"
    \* FaceAnalyzer.detect_crowd_reaction: one call
    fc_faces,             \* what detect_faces returns for the frame
    fc_min_faces,         \* min_faces argument
    fc_min_happy_ratio,   \* min_happy_ratio argument
    fc_result,            \* the returned dict
    fc_emotion_calls,     \* number of analyze_emotions invocations
    fc_pc,                \* "call" | "returned"
    \* HighlightDetector.detect_highlights
    fps,                  \* cap.get(CAP_PROP_FPS)
    min_duration,         \* min_duration argument
    analyze_audio,        \* analyze_audio argument
    analyze_faces,        \* analyze_faces argument
    audio_onsets,         \* the onset times librosa finds in the video's audio track
    video,                \* the frames the capture has delivered, in order
    pos,                  \* CAP_PROP_POS_FRAMES: frames read by the current call
    applause_segments,    \* applause_segments (None while unbound)
    highlights,           \* highlights
    current_highlight,    \* current_highlight
    pc,                   \* "start" | "loop" | "done" | "error"
    error,                \* the exception that ended the call, "" if none
    run,                  \* 1 for the first call, 2 for a repeated call on the same video
    first_outcome,        \* what the first call returned or raised
    video_opens,          \* cv2 can open the file and read its frames
    audio_loads,          \* librosa can load the file's audio track
    \* HighlightDetector.extract_highlight_clips
    ex_highlights,        \* highlights argument: [start_time, end_time] per interval
    ex_fps,               \* cap.get(CAP_PROP_FPS)
    ex_frame_count,       \* number of frames the video holds
    ex_add_visualization, \* add_visualization argument
    ex_i,                 \* intervals handled by the for loop
    ex_clips,             \* per interval, the source frames written to its file
    ex_output_paths,      \* output_paths
    ex_pc,                \* "loop" | "done"
    \* reel_generator.generate_reel.ReelGenerator.create_reel
    rl_total_clips,       \* len(clips)
    rl_duration,          \* duration argument, tenths of a second
    rl_transition_duration, \* transition_duration argument, tenths of a second
    rl_music,             \* a music_path was given
    rl_clip_duration,     \* clip_duration, a ratio of tenths of a second
    rl_i,                 \* clips handled by the for loop
    rl_filter_complex,    \* filter_complex, one record per appended string
    rl_pc,                \* "start" | "loop" | "done" | "error"
    rl_error,             \* the exception raised, "" when none
    \* video_processing.reel_generator.ReelGenerator: merge_clips, add_captions,
    \* add_title_screen
    mg_op,                \* the method called
    mg_input_files,       \* len(input_files)
    mg_progress_callback, \* a progress_callback was given
    mg_captions_ok,       \* every caption holds 'start_time', 'end_time' and 'text'
    mg_i,                 \* input files probed
    mg_probes,            \* what each probe gave
    mg_total_duration,    \* total_duration, seconds
    mg_tmp,               \* the temporary files that exist
    mg_output_exists,     \* a file exists at output_file
    mg_process,           \* the external process of merge_clips
    mg_stderr,            \* lines in the stderr pipe, written and not yet read
    mg_stdout,            \* chunks in the stdout pipe, written and not yet read
    mg_callbacks,         \* the values passed to progress_callback
    mg_pc,                \* where the call is
    mg_error,             \* the exception the call raised, None when none
    \* AudioAnalyzer.analyze_crowd_reaction
    cr_window_size,       \* window_size argument, milliseconds
    cr_bands,             \* per spectrogram frame, the mid-band and high-band dB means
    cr_window_frames,     \* window_frames, None before it is computed
    cr_i,                 \* the loop variable i: the first frame of the next window
    cr_reactions,         \* reactions
    cr_pc,                \* "start" | "loop" | "done" | "error"
    cr_error              \* the exception raised, "" when none

apVars == <<ap_onsets, ap_min_duration, ap_i, ap_current_segment, ap_segments, ap_pc>>
fcVars == <<fc_faces, fc_min_faces, fc_min_happy_ratio, fc_result, fc_emotion_calls, fc_pc>>
hlVars == <<fps, min_duration, analyze_audio, analyze_faces, audio_onsets, video, pos,
            applause_segments, highlights, current_highlight, pc, error, run, first_outcome,
            video_opens, audio_loads>>
exVars == <<ex_highlights, ex_fps, ex_frame_count, ex_add_visualization, ex_i, ex_clips,
            ex_output_paths, ex_pc>>
rlVars == <<rl_total_clips, rl_duration, rl_transition_duration, rl_music, rl_clip_duration,
            rl_i, rl_filter_complex, rl_pc, rl_error>>
mgVars == <<mg_op, mg_input_files, mg_progress_callback, mg_captions_ok, mg_i, mg_probes,
            mg_total_duration, mg_tmp, mg_output_exists, mg_process, mg_stderr,
            mg_stdout, mg_callbacks, mg_pc, mg_error>>
crVars == <<cr_window_size, cr_bands, cr_window_frames, cr_i, cr_reactions, cr_pc, cr_error>>
vars == <<apVars, fcVars, hlVars, exVars, rlVars, mgVars, crVars>>

\* For each operation, the variables of the other operations
apOthers == <<fcVars, hlVars, exVars, rlVars, mgVars, crVars>>
fcOthers == <<apVars, hlVars, exVars, rlVars, mgVars, crVars>>
hlOthers == <<apVars, fcVars, exVars, rlVars, mgVars, crVars>>
exOthers == <<apVars, fcVars, hlVars, rlVars, mgVars, crVars>>
rlOthers == <<apVars, fcVars, hlVars, exVars, mgVars, crVars>>
mgOthers == <<apVars, fcVars, hlVars, exVars, rlVars, crVars>>
crOthers == <<apVars, fcVars, hlVars, exVars, rlVars, mgVars>>

----------------------------------------------------------------------------
\* Bounds of the model
MaxOnsets == 4
MaxOnsetTime == 20
MaxFaces == 6
MaxFrames == 5
MaxHighlights == 2
MaxVideoFrames == 3
MaxClips == 3
MaxInputFiles == 2
MaxStderrLines == 3
PipeCapacity == 1
MaxBandFrames == 5

None == [none |-> TRUE]

Rat(n, d) == [num |-> n, den |-> d]

RatGeq(a, b) == a.num * b.den >= b.num * a.den

Last(s) == s[Len(s)]

----------------------------------------------------------------------------
(* AudioAnalyzer.detect_applause, lines 61-82 *)

\* 0.5s, line 68
ApplauseMergeGap == 5

\* min_duration: float = 0.5, line 32
ApplauseDefaultMinDuration == 5

Segment(s, e) == [start |-> s, end |-> e]

\* Variant: an onset exactly 0.5s after the segment's end is merged too.
MergesIntoGapLeq(seg, time) == time - seg.end <= ApplauseMergeGap

\* line 68: "Merge if less than 0.5s apart"
MergesInto(seg, time) == time - seg.end < ApplauseMergeGap

\* Variant: no minimum duration is applied.
SegmentKeptAlways(seg, min_dur) == TRUE

\* lines 71-72 and 78-79
SegmentKept(seg, min_dur) == seg.end - seg.start >= min_dur

\* One iteration of `for time in onset_times` on the loop state
\* [current_segment, applause_segments].
OnsetStep(st, time, min_dur) ==
    IF st.current_segment = None
    THEN [st EXCEPT !.current_segment = Segment(time, time)]
    ELSE IF MergesInto(st.current_segment, time)
    THEN [st EXCEPT !.current_segment.end = time]
    ELSE [current_segment |-> Segment(time, time),
          applause_segments |->
              IF SegmentKept(st.current_segment, min_dur)
              THEN Append(st.applause_segments, st.current_segment)
              ELSE st.applause_segments]

\* "Add final segment if exists"
OnsetsExhausted(st, min_dur) ==
    IF st.current_segment # None /\ SegmentKept(st.current_segment, min_dur)
    THEN Append(st.applause_segments, st.current_segment)
    ELSE st.applause_segments

RECURSIVE GroupOnsets(_, _, _)
GroupOnsets(st, times, min_dur) ==
    IF times = << >> THEN st
    ELSE GroupOnsets(OnsetStep(st, Head(times), min_dur), Tail(times), min_dur)

\* The value detect_applause returns for the given onset times.
detect_applause(times, min_dur) ==
    OnsetsExhausted(
        GroupOnsets([current_segment |-> None, applause_segments |-> << >>],
                    times, min_dur),
        min_dur)

\* Strictly ascending onset sequences of length n with values in lo..MaxOnsetTime
RECURSIVE AscendingFrom(_, _)
AscendingFrom(lo, n) ==
    IF n = 0 THEN {<< >>}
    ELSE UNION {{<<t>> \o s : s \in AscendingFrom(t + 1, n - 1)} : t \in lo..MaxOnsetTime}

OnsetSequences == UNION {AscendingFrom(0, n) : n \in 0..MaxOnsets}

ApplauseMinDurations == {0, ApplauseDefaultMinDuration}

ApInit ==
    /\ ap_onsets \in OnsetSequences
    /\ ap_min_duration \in ApplauseMinDurations
    /\ ap_i = 0
    /\ ap_current_segment = None
    /\ ap_segments = << >>
    /\ ap_pc = "loop"

ApIdle ==
    /\ ap_onsets = << >>
    /\ ap_min_duration = ApplauseDefaultMinDuration
    /\ ap_i = 0
    /\ ap_current_segment = None
    /\ ap_segments = << >>
    /\ ap_pc = "done"

ProcessOnset ==
    /\ ap_pc = "loop"
    /\ ap_i < Len(ap_onsets)
    /\ LET st == OnsetStep([current_segment |-> ap_current_segment,
                            applause_segments |-> ap_segments],
                           ap_onsets[ap_i + 1], ap_min_duration)
       IN /\ ap_current_segment' = st.current_segment
          /\ ap_segments' = st.applause_segments
    /\ ap_i' = ap_i + 1
    /\ UNCHANGED <<ap_onsets, ap_min_duration, ap_pc>>
    /\ UNCHANGED apOthers

FinishApplause ==
    /\ ap_pc = "loop"
    /\ ap_i = Len(ap_onsets)
    /\ ap_segments' = OnsetsExhausted([current_segment |-> ap_current_segment,
                                       applause_segments |-> ap_segments],
                                      ap_min_duration)
    /\ ap_pc' = "done"
    /\ UNCHANGED <<ap_onsets, ap_min_duration, ap_i, ap_current_segment>>
    /\ UNCHANGED apOthers

ApNext == ProcessOnset \/ FinishApplause

----------------------------------------------------------------------------
(* FaceAnalyzer, lines 61-125 *)

\* min_faces: int = 5, line 93
DefaultMinFaces == 5

\* min_happy_ratio: float = 0.7, line 93
DefaultMinHappyRatio == Rat(7, 10)

\* detect_faces is the external face detector: n faces, told apart by index.
Faces(n) == [i \in 1..n |-> [bbox |-> i]]

\* analyze_emotions: the placeholder labels every face "neutral" (0.8).
analyze_emotions(faces) ==
    [i \in DOMAIN faces |->
        [bbox |-> faces[i].bbox, emotion |-> "neutral", emotion_confidence |-> Rat(8, 10)]]

\* Variant: the crowd test is off by one.
TooFewFacesOffByOne(faces, min_faces) == Len(faces) < min_faces - 1

\* line 106
TooFewFaces(faces, min_faces) == Len(faces) < min_faces

\* Variant: the confidence is the happy ratio whatever the reaction.
ConfidenceIsHappyRatio(reaction, happy_ratio) == happy_ratio

\* line 118
Confidence(reaction, happy_ratio) ==
    IF reaction = "positive" THEN happy_ratio
    ELSE Rat(happy_ratio.den - happy_ratio.num, happy_ratio.den)

\* detect_crowd_reaction: the returned dict and the number of analyze_emotions
\* calls made on the way. min_faces >= 1, so analyzed_faces is never empty
\* where happy_ratio is computed.
detect_crowd_reaction(faces, min_faces, min_happy_ratio) ==
    IF TooFewFaces(faces, min_faces)
    THEN [result |-> [reaction |-> "neutral",
                      confidence |-> Rat(0, 1),
                      face_count |-> Len(faces)],
          emotion_calls |-> 0]
    ELSE LET analyzed_faces == analyze_emotions(faces)
             happy_faces == Cardinality({i \in DOMAIN analyzed_faces :
                                            analyzed_faces[i].emotion = "happy"})
             happy_ratio == Rat(happy_faces, Len(analyzed_faces))
             reaction == IF RatGeq(happy_ratio, min_happy_ratio)
                         THEN "positive" ELSE "neutral"
         IN [result |-> [reaction |-> reaction,
                         confidence |-> Confidence(reaction, happy_ratio),
                         face_count |-> Len(faces),
                         happy_ratio |-> happy_ratio],
             emotion_calls |-> 1]

MinHappyRatios == {Rat(0, 10), DefaultMinHappyRatio, Rat(10, 10)}

FcInit ==
    /\ fc_faces \in {Faces(n) : n \in 0..MaxFaces}
    /\ fc_min_faces \in 1..MaxFaces
    /\ fc_min_happy_ratio \in MinHappyRatios
    /\ fc_result = None
    /\ fc_emotion_calls = 0
    /\ fc_pc = "call"

FcIdle ==
    /\ fc_faces = << >>
    /\ fc_min_faces = DefaultMinFaces
    /\ fc_min_happy_ratio = DefaultMinHappyRatio
    /\ fc_result = None
    /\ fc_emotion_calls = 0
    /\ fc_pc = "returned"

CallDetectCrowdReaction ==
    /\ fc_pc = "call"
    /\ LET r == detect_crowd_reaction(fc_faces, fc_min_faces, fc_min_happy_ratio)
       IN /\ fc_result' = r.result
          /\ fc_emotion_calls' = fc_emotion_calls + r.emotion_calls
    /\ fc_pc' = "returned"
    /\ UNCHANGED <<fc_faces, fc_min_faces, fc_min_happy_ratio>>
    /\ UNCHANGED fcOthers

FcNext == CallDetectCrowdReaction

----------------------------------------------------------------------------
(* HighlightDetector.detect_highlights, lines 44-147 *)

important_classes == {"person", "dancing", "cheering", "celebrating"}

\* What the capture and the two detectors deliver for one frame: the class
\* names of the boxes the object model reports and the number of faces the
\* face model reports.
FrameInputs ==
    { [boxes |-> << >>,         nfaces |-> DefaultMinFaces - 2],
      [boxes |-> <<"chair">>,   nfaces |-> DefaultMinFaces],
      [boxes |-> <<"person">>,  nfaces |-> DefaultMinFaces - 2],
      [boxes |-> <<"person">>,  nfaces |-> DefaultMinFaces] }

FpsValues == {1, 2}

MinDurations == {10, 20}

AudioTracks == { << >>, <<10, 14, 18, 22>> }

\* timestamp = frame_number / fps, in tenths of a second
Timestamp(frame_number, fps_) == (frame_number * 10) \div fps_

IsImportant(class) == class \in important_classes

\* important_detections, lines 68-71
ImportantDetections(boxes) == SelectSeq(boxes, IsImportant)

\* face_analysis, lines 74-76
FaceAnalysis(frame, analyze) ==
    IF analyze
    THEN detect_crowd_reaction(Faces(frame.nfaces), DefaultMinFaces,
                               DefaultMinHappyRatio).result
    ELSE None

\* has_applause, lines 79-84
HasApplause(timestamp, analyze, segments) ==
    /\ analyze
    /\ \E k \in DOMAIN segments :
          segments[k].start <= timestamp /\ timestamp <= segments[k].end

Value(v) == [raised |-> "", value |-> v]

Raise(e) == [raised |-> e, value |-> FALSE]

\* is_highlight, lines 87-92: `a or (fa and fa['is_crowd'] and fa['reaction'] in
\* [...]) or has_applause`, evaluated left to right with short circuit. A dict
\* returned by detect_crowd_reaction is never empty, so it is truthy.
IsHighlight(important_detections, face_analysis, has_applause) ==
    IF Len(important_detections) > 0 THEN Value(TRUE)
    ELSE IF face_analysis # None
    THEN IF "is_crowd" \notin DOMAIN face_analysis
         THEN Raise("KeyError: 'is_crowd'")
         ELSE Value((face_analysis.is_crowd
                        /\ face_analysis.reaction \in {"positive", "surprised"})
                    \/ has_applause)
    ELSE Value(has_applause)

\* Variant: has_applause is the flag of the latest frame.
AccumulateLatestApplause(cur, timestamp, important_detections, face_analysis, has_applause) ==
    LET base == IF cur = None
                THEN [start_time |-> timestamp,
                      end_time |-> timestamp,
                      detections |-> << >>,
                      face_analysis |-> << >>,
                      has_applause |-> FALSE]
                ELSE [cur EXCEPT !.end_time = timestamp]
    IN [base EXCEPT
          !.detections = @ \o [i \in DOMAIN important_detections |->
                                  [class |-> important_detections[i]]],
          !.face_analysis = IF face_analysis # None THEN Append(@, face_analysis) ELSE @,
          !.has_applause = has_applause]

\* lines 94-121: open a new interval or extend the open one, then add the
\* frame's detections, face sample and applause flag.
Accumulate(cur, timestamp, important_detections, face_analysis, has_applause) ==
    LET base == IF cur = None
                THEN [start_time |-> timestamp,
                      end_time |-> timestamp,
                      detections |-> << >>,
                      face_analysis |-> << >>,
                      has_applause |-> FALSE]
                ELSE [cur EXCEPT !.end_time = timestamp]
    IN [base EXCEPT
          !.detections = @ \o [i \in DOMAIN important_detections |->
                                  [class |-> important_detections[i]]],
          !.face_analysis = IF face_analysis # None THEN Append(@, face_analysis) ELSE @,
          !.has_applause = IF has_applause THEN TRUE ELSE @]

RECURSIVE SumInts(_)
SumInts(s) == IF s = << >> THEN 0 ELSE Head(s) + SumInts(Tail(s))

\* Sum of fractions as one fraction over the product of the denominators.
RECURSIVE SumRats(_)
SumRats(s) ==
    IF s = << >> THEN Rat(0, 1)
    ELSE LET r == SumRats(Tail(s))
         IN Rat(Head(s).num * r.den + r.num * Head(s).den, Head(s).den * r.den)

\* np.mean of a non-empty list
MeanInts(s) == Rat(SumInts(s), Len(s))

MeanRats(s) == LET t == SumRats(s) IN Rat(t.num, t.den * Len(s))

\* lines 125-137: the elif branch, on the open interval cur. The list
\* comprehensions index every sample with 'face_count', 'happy_ratio' and
\* 'surprise_ratio'.
CloseByFrame(cur, hs, min_dur) ==
    IF cur.end_time - cur.start_time >= min_dur
    THEN IF cur.face_analysis # << >>
         THEN LET fa == cur.face_analysis
              IN IF \E i \in DOMAIN fa : "happy_ratio" \notin DOMAIN fa[i]
                 THEN [raised |-> "KeyError: 'happy_ratio'", highlights |-> hs]
                 ELSE IF \E i \in DOMAIN fa : "surprise_ratio" \notin DOMAIN fa[i]
                 THEN [raised |-> "KeyError: 'surprise_ratio'", highlights |-> hs]
                 ELSE [raised |-> "",
                       highlights |-> Append(hs,
                          [start_time |-> cur.start_time,
                           end_time |-> cur.end_time,
                           detections |-> cur.detections,
                           face_analysis |-> cur.face_analysis,
                           has_applause |-> cur.has_applause,
                           avg_face_analysis |->
                              [face_count |->
                                  MeanInts([i \in DOMAIN fa |-> fa[i].face_count]),
                               happy_ratio |->
                                  MeanRats([i \in DOMAIN fa |-> fa[i].happy_ratio]),
                               surprise_ratio |->
                                  MeanRats([i \in DOMAIN fa |-> fa[i].surprise_ratio])]])]
         ELSE [raised |-> "", highlights |-> Append(hs, cur)]
    ELSE [raised |-> "", highlights |-> hs]

\* Variant: the interval open at the end of the stream is appended unchecked.
CloseByEndOfStreamUnchecked(cur, hs, min_dur) ==
    IF cur # None THEN Append(hs, cur) ELSE hs

\* Variant: the interval open at the end of the stream replaces the list.
CloseByEndOfStreamReplacing(cur, hs, min_dur) ==
    IF cur # None /\ cur.end_time - cur.start_time >= min_dur
    THEN <<cur>>
    ELSE hs

\* lines 141-147: "Add final highlight if exists"
CloseByEndOfStream(cur, hs, min_dur) ==
    IF cur # None /\ cur.end_time - cur.start_time >= min_dur
    THEN Append(hs, cur)
    ELSE hs

\* Variant: the open interval survives from one call to the next.
EntryLocalsStale(hs, cur) == [highlights |-> << >>, current_highlight |-> cur]

\* lines 46-47: the call's locals are fresh whatever an earlier call left
EntryLocals(hs, cur) == [highlights |-> << >>, current_highlight |-> None]

HLInit ==
    /\ video_opens \in BOOLEAN
    /\ audio_loads \in (IF video_opens THEN {TRUE} ELSE BOOLEAN)
    /\ fps \in (IF video_opens THEN FpsValues ELSE {0})
    /\ min_duration \in MinDurations
    /\ analyze_audio \in BOOLEAN
    /\ analyze_faces \in BOOLEAN
    /\ audio_onsets \in AudioTracks
    /\ video = << >>
    /\ pos = 0
    /\ applause_segments = None
    /\ highlights = << >>
    /\ current_highlight = None
    /\ pc = "start"
    /\ error = ""
    /\ run = 1
    /\ first_outcome = None

\* Variant: only the first two onsets are known when the frame loop starts.
EntryApplauseSegmentsPartial(analyze, onsets) ==
    IF analyze
    THEN detect_applause(SubSeq(onsets, 1, IF Len(onsets) < 2 THEN Len(onsets) ELSE 2),
                         ApplauseDefaultMinDuration)
    ELSE None

\* lines 51-53: applause_segments, from the audio of the whole file
EntryApplauseSegments(analyze, onsets) ==
    IF analyze THEN detect_applause(onsets, ApplauseDefaultMinDuration) ELSE None

\* lines 44-54: open the capture, initialise the locals and, when analyze_audio
\* is set, compute the applause segments of the whole audio track.
EnterDetect ==
    /\ pc = "start"
    /\ analyze_audio => audio_loads
    /\ LET l == EntryLocals(highlights, current_highlight)
       IN /\ highlights' = l.highlights
          /\ current_highlight' = l.current_highlight
    /\ applause_segments' = EntryApplauseSegments(analyze_audio, audio_onsets)
    /\ pc' = "loop"
    /\ UNCHANGED <<fps, min_duration, analyze_audio, analyze_faces, audio_onsets,
                   video, pos, error, run, first_outcome, video_opens, audio_loads>>
    /\ UNCHANGED hlOthers

\* lines 44-52: analyze_audio is set and librosa.load cannot read the file; the
\* exception leaves detect_highlights
EnterDetectRaises ==
    /\ pc = "start"
    /\ analyze_audio /\ ~audio_loads
    /\ LET l == EntryLocals(highlights, current_highlight)
       IN /\ highlights' = l.highlights
          /\ current_highlight' = l.current_highlight
    /\ pc' = "error"
    /\ error' = "librosa.load"
    /\ UNCHANGED <<fps, min_duration, analyze_audio, analyze_faces, audio_onsets,
                   video, pos, applause_segments, run, first_outcome, video_opens,
                   audio_loads>>
    /\ UNCHANGED hlOthers

\* The frames cap.read() can return next: the frame the video is known to hold
\* at this position, or, in the first call, any frame while the video is
\* shorter than MaxFrames; none from a capture that did not open.
NextFrames ==
    IF ~video_opens THEN {}
    ELSE IF pos < Len(video) THEN {video[pos + 1]}
    ELSE IF run = 1 /\ Len(video) < MaxFrames THEN FrameInputs
    ELSE {}

FrameRead(frame) ==
    /\ video' = IF pos < Len(video) THEN video ELSE Append(video, frame)
    /\ pos' = pos + 1

FrameImportant(frame) == ImportantDetections(frame.boxes)

FrameFace(frame) == FaceAnalysis(frame, analyze_faces)

FrameApplause == HasApplause(Timestamp(pos + 1, fps), analyze_audio, applause_segments)

FrameIsHighlight(frame) ==
    IsHighlight(FrameImportant(frame), FrameFace(frame), FrameApplause)

HLFixed == <<fps, min_duration, analyze_audio, analyze_faces, audio_onsets,
             applause_segments, run, first_outcome, video_opens, audio_loads>>

\* lines 57-121: a frame for which is_highlight is true
HighlightFrame ==
    /\ pc = "loop"
    /\ \E frame \in NextFrames :
          /\ FrameIsHighlight(frame) = Value(TRUE)
          /\ FrameRead(frame)
          /\ current_highlight' =
                Accumulate(current_highlight, Timestamp(pos + 1, fps),
                           FrameImportant(frame), FrameFace(frame), FrameApplause)
    /\ UNCHANGED <<highlights, pc, error>>
    /\ UNCHANGED HLFixed
    /\ UNCHANGED hlOthers

\* lines 57-92, 123-137: a frame for which is_highlight is false while an
\* interval is open
ClosingFrame ==
    /\ pc = "loop"
    /\ current_highlight # None
    /\ \E frame \in NextFrames :
          /\ FrameIsHighlight(frame) = Value(FALSE)
          /\ FrameRead(frame)
    /\ LET r == CloseByFrame(current_highlight, highlights, min_duration)
       IN IF r.raised # ""
          THEN /\ pc' = "error"
               /\ error' = r.raised
               /\ UNCHANGED <<highlights, current_highlight>>
          ELSE /\ highlights' = r.highlights
               /\ current_highlight' = None
               /\ UNCHANGED <<pc, error>>
    /\ UNCHANGED HLFixed
    /\ UNCHANGED hlOthers

\* lines 57-92: a frame for which is_highlight is false while no interval is open
IdleFrame ==
    /\ pc = "loop"
    /\ current_highlight = None
    /\ \E frame \in NextFrames :
          /\ FrameIsHighlight(frame) = Value(FALSE)
          /\ FrameRead(frame)
    /\ UNCHANGED <<highlights, current_highlight, pc, error>>
    /\ UNCHANGED HLFixed
    /\ UNCHANGED hlOthers

\* lines 57-92: a frame on which the evaluation of is_highlight raises
FrameRaises ==
    /\ pc = "loop"
    /\ \E frame \in NextFrames :
          /\ FrameIsHighlight(frame).raised # ""
          /\ FrameRead(frame)
          /\ error' = FrameIsHighlight(frame).raised
    /\ pc' = "error"
    /\ UNCHANGED <<highlights, current_highlight>>
    /\ UNCHANGED HLFixed
    /\ UNCHANGED hlOthers

\* lines 57-59, 139-147: cap.read() reports the end of the video
EndOfStream ==
    /\ pc = "loop"
    /\ pos = Len(video)
    /\ highlights' = CloseByEndOfStream(current_highlight, highlights, min_duration)
    /\ pc' = "done"
    /\ UNCHANGED <<video, pos, current_highlight, error>>
    /\ UNCHANGED HLFixed
    /\ UNCHANGED hlOthers

\* What a caller observes of a finished call: the interval boundaries of the
\* returned list, or the exception.
Outcome ==
    [pc |-> pc,
     error |-> error,
     intervals |-> IF pc = "done"
                   THEN [k \in DOMAIN highlights |->
                            <<highlights[k].start_time, highlights[k].end_time>>]
                   ELSE << >>]

\* detect_highlights is called again on the same video with the same arguments.
CallAgain ==
    /\ pc \in {"done", "error"}
    /\ run = 1
    /\ run' = 2
    /\ first_outcome' = Outcome
    /\ pc' = "start"
    /\ pos' = 0
    /\ error' = ""
    /\ UNCHANGED <<fps, min_duration, analyze_audio, analyze_faces, audio_onsets,
                   video, applause_segments, highlights, current_highlight, video_opens,
                   audio_loads>>
    /\ UNCHANGED hlOthers

Next ==
    \/ EnterDetect
    \/ EnterDetectRaises
    \/ HighlightFrame
    \/ ClosingFrame
    \/ IdleFrame
    \/ FrameRaises
    \/ EndOfStream

NextRerun ==
    \/ EnterDetect
    \/ EnterDetectRaises
    \/ HighlightFrame
    \/ ClosingFrame
    \/ IdleFrame
    \/ FrameRaises
    \/ EndOfStream
    \/ CallAgain

HLIdle ==
    /\ video_opens = TRUE
    /\ audio_loads = TRUE
    /\ fps = 1
    /\ min_duration = 20
    /\ analyze_audio = FALSE
    /\ analyze_faces = FALSE
    /\ audio_onsets = << >>
    /\ video = << >>
    /\ pos = 0
    /\ applause_segments = None
    /\ highlights = << >>
    /\ current_highlight = None
    /\ pc = "done"
    /\ error = ""
    /\ run = 1
    /\ first_outcome = None

----------------------------------------------------------------------------
(* HighlightDetector.extract_highlight_clips, highlight_detection.py lines 149-211 *)

\* Times an interval of the highlights argument starts or ends at, tenths of a second
ExTimes == {0, 10, 15, 30}

ExFpsValues == {1, 2}

ExInterval(s, e) == [start_time |-> s, end_time |-> e]

ExIntervals == {ExInterval(s, e) : s \in ExTimes, e \in ExTimes}

ExHighlightLists == UNION {[1..n -> ExIntervals] : n \in 0..MaxHighlights}

\* lines 177-178: int(highlight['start_time'] * fps), the time in tenths of a second
FrameIndex(time, fps_) == (time * fps_) \div 10

\* line 180: output_dir / f"highlight_{i+1}.mp4", i counted from 0
ClipPath(i) == [dir |-> "output_dir", name |-> "highlight", number |-> i + 1]

\* lines 186-205: up to `remaining` reads from position `position`; a read past
\* the last frame returns ret = False and ends the loop
RECURSIVE ReadFrames(_, _, _, _)
ReadFrames(position, remaining, frame_count, visualization) ==
    IF remaining <= 0 \/ position >= frame_count
    THEN << >>
    ELSE <<[frame |-> position, overlay |-> visualization]>>
         \o ReadFrames(position + 1, remaining - 1, frame_count, visualization)

\* lines 184-207: the frames written to the file of one interval
ClipFrames(highlight, fps_, frame_count, visualization) ==
    LET start_frame == FrameIndex(highlight.start_time, fps_)
        end_frame == FrameIndex(highlight.end_time, fps_)
    IN ReadFrames(start_frame, end_frame - start_frame, frame_count, visualization)

\* Variant: the path of a clip no frame was written to is left out.
AppendPathUnlessEmpty(paths, path, frames) ==
    IF Len(frames) = 0 THEN paths ELSE Append(paths, path)

\* line 208: output_paths.append(str(output_path))
AppendPath(paths, path, frames) == Append(paths, path)

ExInit ==
    /\ ex_highlights \in ExHighlightLists
    /\ ex_fps \in ExFpsValues
    /\ ex_frame_count \in 0..MaxVideoFrames
    /\ ex_add_visualization \in BOOLEAN
    /\ ex_i = 0
    /\ ex_clips = << >>
    /\ ex_output_paths = << >>
    /\ ex_pc = "loop"

\* lines 176-208: one pass of the loop over the highlights
ExtractClip ==
    /\ ex_pc = "loop"
    /\ ex_i < Len(ex_highlights)
    /\ LET frames == ClipFrames(ex_highlights[ex_i + 1], ex_fps, ex_frame_count,
                                ex_add_visualization)
       IN /\ ex_clips' = Append(ex_clips, frames)
          /\ ex_output_paths' = AppendPath(ex_output_paths, ClipPath(ex_i), frames)
    /\ ex_i' = ex_i + 1
    /\ UNCHANGED <<ex_highlights, ex_fps, ex_frame_count, ex_add_visualization, ex_pc>>
    /\ UNCHANGED exOthers

\* lines 210-211: cap.release(); return output_paths
ExtractReturn ==
    /\ ex_pc = "loop"
    /\ ex_i = Len(ex_highlights)
    /\ ex_pc' = "done"
    /\ UNCHANGED <<ex_highlights, ex_fps, ex_frame_count, ex_add_visualization, ex_i,
                   ex_clips, ex_output_paths>>
    /\ UNCHANGED exOthers

ExNext ==
    \/ ExtractClip
    \/ ExtractReturn

ExIdle ==
    /\ ex_highlights = << >>
    /\ ex_fps = 1
    /\ ex_frame_count = 0
    /\ ex_add_visualization = FALSE
    /\ ex_i = 0
    /\ ex_clips = << >>
    /\ ex_output_paths = << >>
    /\ ex_pc = "done"

----------------------------------------------------------------------------
(* ReelGenerator.create_reel, reel_generator/generate_reel.py lines 18-103 *)

\* Target durations and transition durations, tenths of a second
ReelDurations == {20, 170, 600}

ReelTransitionDurations == {0, 5, 10}

\* A stream label of the filter graph: [i:v], [i:a] or [vi]
Label(kind, i) == [kind |-> kind, index |-> i]

\* Variant: one transition is counted per clip.
ClipDurationTransitionPerClip(duration, transition_duration, total_clips) ==
    Rat(duration - transition_duration * total_clips, total_clips)

\* line 41
ClipDuration(duration, transition_duration, total_clips) ==
    Rat(duration - transition_duration * (total_clips - 1), total_clips)

\* line 52: f"[{i}:v]trim=0:{clip_duration},setpts=PTS-STARTPTS[v{i}];"
TrimFilter(i, clip_duration) ==
    [filter |-> "trim", inputs |-> <<Label("in_v", i)>>, output |-> Label("v", i),
     start |-> 0, end |-> clip_duration]

\* line 58: offset={clip_duration * (i+1) - transition_duration}
XfadeOffset(i, clip_duration, transition_duration) ==
    Rat(clip_duration.num * (i + 1) - transition_duration * clip_duration.den,
        clip_duration.den)

\* lines 56-59
XfadeFilter(i, clip_duration, transition_duration) ==
    [filter |-> "xfade", inputs |-> <<Label("v", i), Label("in_v", i + 1)>>,
     output |-> Label("v", i + 1), duration |-> transition_duration,
     offset |-> XfadeOffset(i, clip_duration, transition_duration)]

\* lines 62-75: the two audio filters of a reel with music
MusicFilters(total_clips, duration) ==
    << [filter |-> "atrim", inputs |-> <<Label("in_a", total_clips)>>,
        output |-> Label("a", 0), start |-> 0, end |-> Rat(duration, 1)],
       [filter |-> "amix", inputs |-> <<Label("a", 0)>>, output |-> Label("aout", 0)] >>

\* line 78: f"[v{total_clips-1}]", a bare label
FinalLabel(total_clips) ==
    [filter |-> "label", inputs |-> <<Label("v", total_clips - 1)>>]

RlInit ==
    /\ rl_total_clips \in 0..MaxClips
    /\ rl_duration \in ReelDurations
    /\ rl_transition_duration \in ReelTransitionDurations
    /\ rl_music \in BOOLEAN
    /\ rl_clip_duration = None
    /\ rl_i = 0
    /\ rl_filter_complex = << >>
    /\ rl_pc = "start"
    /\ rl_error = ""

\* lines 37-45
ReelStart ==
    /\ rl_pc = "start"
    /\ rl_total_clips # 0
    /\ rl_clip_duration' = ClipDuration(rl_duration, rl_transition_duration, rl_total_clips)
    /\ rl_pc' = "loop"
    /\ UNCHANGED <<rl_total_clips, rl_duration, rl_transition_duration, rl_music, rl_i,
                   rl_filter_complex, rl_error>>
    /\ UNCHANGED rlOthers

\* line 41 with no clip: the division raises
ReelStartRaises ==
    /\ rl_pc = "start"
    /\ rl_total_clips = 0
    /\ rl_pc' = "error"
    /\ rl_error' = "ZeroDivisionError"
    /\ UNCHANGED <<rl_total_clips, rl_duration, rl_transition_duration, rl_music,
                   rl_clip_duration, rl_i, rl_filter_complex>>
    /\ UNCHANGED rlOthers

\* lines 47-59: one pass of the loop over the clips
ReelClip ==
    /\ rl_pc = "loop"
    /\ rl_i < rl_total_clips
    /\ rl_filter_complex' =
          rl_filter_complex
          \o <<TrimFilter(rl_i, rl_clip_duration)>>
          \o (IF rl_i < rl_total_clips - 1
              THEN <<XfadeFilter(rl_i, rl_clip_duration, rl_transition_duration)>>
              ELSE << >>)
    /\ rl_i' = rl_i + 1
    /\ UNCHANGED <<rl_total_clips, rl_duration, rl_transition_duration, rl_music,
                   rl_clip_duration, rl_pc, rl_error>>
    /\ UNCHANGED rlOthers

\* lines 61-103: the audio filters, the final label, the ffmpeg run
ReelFinish ==
    /\ rl_pc = "loop"
    /\ rl_i = rl_total_clips
    /\ rl_filter_complex' =
          rl_filter_complex
          \o (IF rl_music THEN MusicFilters(rl_total_clips, rl_duration) ELSE << >>)
          \o <<FinalLabel(rl_total_clips)>>
    /\ rl_pc' = "done"
    /\ UNCHANGED <<rl_total_clips, rl_duration, rl_transition_duration, rl_music,
                   rl_clip_duration, rl_i, rl_error>>
    /\ UNCHANGED rlOthers

RlNext ==
    \/ ReelStart
    \/ ReelStartRaises
    \/ ReelClip
    \/ ReelFinish

RlIdle ==
    /\ rl_total_clips = 0
    /\ rl_duration = 600
    /\ rl_transition_duration = 10
    /\ rl_music = FALSE
    /\ rl_clip_duration = None
    /\ rl_i = 0
    /\ rl_filter_complex = << >>
    /\ rl_pc = "error"
    /\ rl_error = ""

----------------------------------------------------------------------------
(* ReelGenerator.merge_clips, video_processing/reel_generator.py lines 19-115 *)

\* line 60: total_duration += 10.0
ProbeFallbackDuration == 10

\* What ffprobe can give for one input file: a duration in seconds, a non-zero
\* exit (CalledProcessError), or output that float() rejects (ValueError)
ProbeOutcomes ==
    {[raised |-> "", duration |-> d] : d \in {0, 2}}
    \cup {[raised |-> e, duration |-> 0] : e \in {"CalledProcessError", "ValueError"}}

\* Seconds of the time= markers ffmpeg prints
TimeMarks == {1, 3}

\* The lines ffmpeg writes to stderr: "... time=00:00:0t.00 ...", a time=
\* marker that does not parse ("time=N/A"), or a line without a marker
StderrLines ==
    {[kind |-> "time", seconds |-> t] : t \in TimeMarks}
    \cup {[kind |-> "badtime", seconds |-> 0], [kind |-> "text", seconds |-> 0]}

\* Variant: a failed probe adds nothing.
AddProbedDurationSkipFailed(total_duration, outcome) ==
    IF outcome.raised = "" THEN total_duration + outcome.duration ELSE total_duration

\* lines 47-60
AddProbedDuration(total_duration, outcome) ==
    IF outcome.raised = ""
    THEN total_duration + outcome.duration
    ELSE total_duration + ProbeFallbackDuration

\* line 96: min(100, int((current_time / total_duration) * 100)), total_duration # 0
Progress(current_time, total_duration) ==
    LET percent == (current_time * 100) \div total_duration
    IN IF percent < 100 THEN percent ELSE 100

NoProcess ==
    [status |-> "none", stderr_left |-> 0, stdout_left |-> 0, stderr_written |-> 0,
     opens_output |-> FALSE, exit_code |-> 0, returncode |-> None]

\* What the ffmpeg process is going to do: how many lines it writes to stderr,
\* whether it writes to stdout (nothing, or more than the pipe holds), whether
\* it gets as far as creating the output file, and its exit code
ProcessPlans ==
    {[status |-> "running", stderr_left |-> e, stdout_left |-> o, stderr_written |-> 0,
      opens_output |-> f, exit_code |-> c, returncode |-> None] :
        e \in 0..MaxStderrLines, o \in {0, PipeCapacity + 1},
        f \in BOOLEAN, c \in {0, 1}}

MgError(type, returncode, output) ==
    [type |-> type, returncode |-> returncode, output |-> output]

MgInit ==
    /\ mg_op \in {"merge_clips", "add_captions", "add_title_screen"}
    /\ mg_input_files \in (IF mg_op = "merge_clips" THEN 0..MaxInputFiles ELSE {0})
    /\ mg_progress_callback \in (IF mg_op = "merge_clips" THEN BOOLEAN ELSE {FALSE})
    /\ mg_captions_ok \in (IF mg_op = "add_captions" THEN BOOLEAN ELSE {TRUE})
    /\ mg_i = 0
    /\ mg_probes = << >>
    /\ mg_total_duration = 0
    /\ mg_tmp = {}
    /\ mg_output_exists = FALSE
    /\ mg_process = NoProcess
    /\ mg_stderr = << >>
    /\ mg_stdout = 0
    /\ mg_callbacks = << >>
    /\ mg_pc = "temp"
    /\ mg_error = None

\* The call raises `err`; `unlinked` are the files its finally clause removes
MgRaise(err, unlinked) ==
    /\ mg_pc' = "raised"
    /\ mg_error' = err
    /\ mg_tmp' = mg_tmp \ unlinked

\* line 37: NamedTemporaryFile itself fails, no file is created
MergeTempFails ==
    /\ mg_op = "merge_clips" /\ mg_pc = "temp"
    /\ MgRaise(MgError("OSError", None, << >>), {})
    /\ UNCHANGED <<mg_op, mg_input_files, mg_progress_callback, mg_captions_ok, mg_i,
                   mg_probes, mg_total_duration, mg_output_exists, mg_process,
                   mg_stderr, mg_stdout, mg_callbacks>>
    /\ UNCHANGED mgOthers

\* lines 37-39: the file is created (delete=False) and a write to it fails;
\* the with block closes the file and the exception leaves merge_clips
MergeTempWriteFails ==
    /\ mg_op = "merge_clips" /\ mg_pc = "temp"
    /\ mg_input_files > 0
    /\ mg_pc' = "raised"
    /\ mg_error' = MgError("OSError", None, << >>)
    /\ mg_tmp' = mg_tmp \cup {"concat_list"}
    /\ UNCHANGED <<mg_op, mg_input_files, mg_progress_callback, mg_captions_ok, mg_i,
                   mg_probes, mg_total_duration, mg_output_exists, mg_process,
                   mg_stderr, mg_stdout, mg_callbacks>>
    /\ UNCHANGED mgOthers

\* lines 37-45
MergeTempWritten ==
    /\ mg_op = "merge_clips" /\ mg_pc = "temp"
    /\ mg_tmp' = mg_tmp \cup {"concat_list"}
    /\ mg_total_duration' = 0
    /\ mg_pc' = "probe"
    /\ UNCHANGED <<mg_op, mg_input_files, mg_progress_callback, mg_captions_ok, mg_i,
                   mg_probes, mg_output_exists, mg_process, mg_stderr, mg_stdout,
                   mg_callbacks, mg_error>>
    /\ UNCHANGED mgOthers

\* lines 46-60: one pass of the loop over the input files
MergeProbe ==
    /\ mg_op = "merge_clips" /\ mg_pc = "probe"
    /\ mg_i < mg_input_files
    /\ \E outcome \in ProbeOutcomes :
          /\ mg_probes' = Append(mg_probes, outcome)
          /\ mg_total_duration' = AddProbedDuration(mg_total_duration, outcome)
    /\ mg_i' = mg_i + 1
    /\ UNCHANGED <<mg_op, mg_input_files, mg_progress_callback, mg_captions_ok, mg_tmp,
                   mg_output_exists, mg_process, mg_stderr, mg_stdout,
                   mg_callbacks, mg_pc, mg_error>>
    /\ UNCHANGED mgOthers

\* lines 62-84: the process is started with both pipes
MergePopen ==
    /\ mg_op = "merge_clips" /\ mg_pc = "probe"
    /\ mg_i = mg_input_files
    /\ \E plan \in ProcessPlans :
          /\ plan.exit_code = 0 => plan.opens_output
          /\ mg_process' = plan
    /\ mg_pc' = IF mg_progress_callback THEN "monitor" ELSE "wait"
    /\ UNCHANGED <<mg_op, mg_input_files, mg_progress_callback, mg_captions_ok, mg_i,
                   mg_probes, mg_total_duration, mg_tmp, mg_output_exists,
                   mg_stderr, mg_stdout, mg_callbacks, mg_error>>
    /\ UNCHANGED mgOthers

\* lines 76-81, 113-115: the executable cannot be started
MergePopenFails ==
    /\ mg_op = "merge_clips" /\ mg_pc = "probe"
    /\ mg_i = mg_input_files
    /\ MgRaise(MgError("OSError", None, << >>), {"concat_list"})
    /\ UNCHANGED <<mg_op, mg_input_files, mg_progress_callback, mg_captions_ok, mg_i,
                   mg_probes, mg_total_duration, mg_output_exists, mg_process,
                   mg_stderr, mg_stdout, mg_callbacks>>
    /\ UNCHANGED mgOthers

\* The process creates the file at output_file
ProcessOpensOutput ==
    /\ mg_process.status = "running"
    /\ mg_process.opens_output /\ ~mg_output_exists
    /\ mg_output_exists' = TRUE
    /\ UNCHANGED <<mg_op, mg_input_files, mg_progress_callback, mg_captions_ok, mg_i,
                   mg_probes, mg_total_duration, mg_tmp, mg_process, mg_stderr, mg_stdout,
                   mg_callbacks, mg_pc, mg_error>>
    /\ UNCHANGED mgOthers

\* The process writes a line to stderr; the write blocks while the pipe is full
ProcessWritesStderr ==
    /\ mg_process.status = "running"
    /\ mg_process.stderr_left > 0
    /\ Len(mg_stderr) < PipeCapacity
    /\ \E line \in StderrLines : mg_stderr' = Append(mg_stderr, line)
    /\ mg_process' = [mg_process EXCEPT !.stderr_left = @ - 1, !.stderr_written = @ + 1]
    /\ UNCHANGED <<mg_op, mg_input_files, mg_progress_callback, mg_captions_ok, mg_i,
                   mg_probes, mg_total_duration, mg_tmp, mg_output_exists, mg_stdout,
                   mg_callbacks, mg_pc, mg_error>>
    /\ UNCHANGED mgOthers

\* The process writes a chunk to stdout; the write blocks while the pipe is full
ProcessWritesStdout ==
    /\ mg_process.status = "running"
    /\ mg_process.stdout_left > 0
    /\ mg_stdout < PipeCapacity
    /\ mg_stdout' = mg_stdout + 1
    /\ mg_process' = [mg_process EXCEPT !.stdout_left = @ - 1]
    /\ UNCHANGED <<mg_op, mg_input_files, mg_progress_callback, mg_captions_ok, mg_i,
                   mg_probes, mg_total_duration, mg_tmp, mg_output_exists, mg_stderr,
                   mg_callbacks, mg_pc, mg_error>>
    /\ UNCHANGED mgOthers

\* The process has written all it had to write and exits
ProcessExits ==
    /\ mg_process.status = "running"
    /\ mg_process.stderr_left = 0 /\ mg_process.stdout_left = 0
    /\ mg_process.opens_output => mg_output_exists
    /\ mg_process' = [mg_process EXCEPT !.status = "exited", !.returncode = mg_process.exit_code]
    /\ UNCHANGED <<mg_op, mg_input_files, mg_progress_callback, mg_captions_ok, mg_i,
                   mg_probes, mg_total_duration, mg_tmp, mg_output_exists, mg_stderr,
                   mg_stdout, mg_callbacks, mg_pc, mg_error>>
    /\ UNCHANGED mgOthers

\* The caller cancels the transcode by terminating the process (SIGTERM)
ProcessTerminated ==
    /\ mg_pc \in {"monitor", "wait"}
    /\ mg_process.status = "running"
    /\ mg_process' = [mg_process EXCEPT !.status = "exited", !.returncode = -15]
    /\ UNCHANGED <<mg_op, mg_input_files, mg_progress_callback, mg_captions_ok, mg_i,
                   mg_probes, mg_total_duration, mg_tmp, mg_output_exists, mg_stderr,
                   mg_stdout, mg_callbacks, mg_pc, mg_error>>
    /\ UNCHANGED mgOthers

\* lines 85-100: readline gives a line; a time= marker that parses is turned
\* into a percentage and passed on, any other line is skipped
MonitorLine ==
    /\ mg_op = "merge_clips" /\ mg_pc = "monitor"
    /\ mg_stderr # << >>
    /\ Head(mg_stderr).kind = "time" => mg_total_duration # 0
    /\ mg_stderr' = Tail(mg_stderr)
    /\ mg_callbacks' =
          IF Head(mg_stderr).kind = "time"
          THEN Append(mg_callbacks, Progress(Head(mg_stderr).seconds, mg_total_duration))
          ELSE mg_callbacks
    /\ UNCHANGED <<mg_op, mg_input_files, mg_progress_callback, mg_captions_ok, mg_i,
                   mg_probes, mg_total_duration, mg_tmp, mg_output_exists, mg_process,
                   mg_stdout, mg_pc, mg_error>>
    /\ UNCHANGED mgOthers

\* line 96 with total_duration = 0: the division raises ZeroDivisionError, which
\* line 98 does not catch; lines 113-115 run and the exception leaves merge_clips
MonitorLineRaises ==
    /\ mg_op = "merge_clips" /\ mg_pc = "monitor"
    /\ mg_stderr # << >>
    /\ Head(mg_stderr).kind = "time" /\ mg_total_duration = 0
    /\ mg_stderr' = Tail(mg_stderr)
    /\ MgRaise(MgError("ZeroDivisionError", None, << >>), {"concat_list"})
    /\ UNCHANGED <<mg_op, mg_input_files, mg_progress_callback, mg_captions_ok, mg_i,
                   mg_probes, mg_total_duration, mg_output_exists, mg_process, mg_stdout,
                   mg_callbacks>>
    /\ UNCHANGED mgOthers

\* lines 86-88: readline gives '' at end of file and the process has exited
MonitorEnd ==
    /\ mg_op = "merge_clips" /\ mg_pc = "monitor"
    /\ mg_stderr = << >>
    /\ mg_process.status = "exited"
    /\ mg_pc' = "wait"
    /\ UNCHANGED <<mg_op, mg_input_files, mg_progress_callback, mg_captions_ok, mg_i,
                   mg_probes, mg_total_duration, mg_tmp, mg_output_exists, mg_process,
                   mg_stderr, mg_stdout, mg_callbacks, mg_error>>
    /\ UNCHANGED mgOthers

\* lines 102-103, 111-115: wait() returns, the exit code is 0
MergeReturn ==
    /\ mg_op = "merge_clips" /\ mg_pc = "wait"
    /\ mg_process.status = "exited"
    /\ mg_process.returncode = 0
    /\ mg_tmp' = mg_tmp \ {"concat_list"}
    /\ mg_pc' = "returned"
    /\ UNCHANGED <<mg_op, mg_input_files, mg_progress_callback, mg_captions_ok, mg_i,
                   mg_probes, mg_total_duration, mg_output_exists, mg_process, mg_stderr,
                   mg_stdout, mg_callbacks, mg_error>>
    /\ UNCHANGED mgOthers

\* lines 102-109, 113-115: wait() returns, the exit code is not 0; what is
\* left in the stderr pipe is read into the exception
MergeRaises ==
    /\ mg_op = "merge_clips" /\ mg_pc = "wait"
    /\ mg_process.status = "exited"
    /\ mg_process.returncode # 0
    /\ mg_stderr' = << >>
    /\ MgRaise(MgError("CalledProcessError", mg_process.returncode, mg_stderr), {"concat_list"})
    /\ UNCHANGED <<mg_op, mg_input_files, mg_progress_callback, mg_captions_ok, mg_i,
                   mg_probes, mg_total_duration, mg_output_exists, mg_process, mg_stdout,
                   mg_callbacks>>
    /\ UNCHANGED mgOthers

----------------------------------------------------------------------------
(* ReelGenerator.add_captions, video_processing/reel_generator.py lines 117-164 *)

\* line 139: NamedTemporaryFile itself fails, no file is created
CaptionsTempFails ==
    /\ mg_op = "add_captions" /\ mg_pc = "temp"
    /\ MgRaise(MgError("OSError", None, << >>), {})
    /\ UNCHANGED <<mg_op, mg_input_files, mg_progress_callback, mg_captions_ok, mg_i,
                   mg_probes, mg_total_duration, mg_output_exists, mg_process, mg_stderr,
                   mg_stdout, mg_callbacks>>
    /\ UNCHANGED mgOthers

\* lines 139-143: the file is created (delete=False); a caption without one of
\* its keys raises KeyError, or a write fails; the exception leaves add_captions
CaptionsWriteRaises ==
    /\ mg_op = "add_captions" /\ mg_pc = "temp"
    /\ mg_pc' = "raised"
    /\ mg_error' = MgError(IF mg_captions_ok THEN "OSError" ELSE "KeyError", None, << >>)
    /\ mg_tmp' = mg_tmp \cup {"srt_file"}
    /\ UNCHANGED <<mg_op, mg_input_files, mg_progress_callback, mg_captions_ok, mg_i,
                   mg_probes, mg_total_duration, mg_output_exists, mg_process, mg_stderr,
                   mg_stdout, mg_callbacks>>
    /\ UNCHANGED mgOthers

\* lines 139-144
CaptionsTempWritten ==
    /\ mg_op = "add_captions" /\ mg_pc = "temp"
    /\ mg_captions_ok
    /\ mg_tmp' = mg_tmp \cup {"srt_file"}
    /\ mg_pc' = "run"
    /\ UNCHANGED <<mg_op, mg_input_files, mg_progress_callback, mg_captions_ok, mg_i,
                   mg_probes, mg_total_duration, mg_output_exists, mg_process, mg_stderr,
                   mg_stdout, mg_callbacks, mg_error>>
    /\ UNCHANGED mgOthers

\* lines 146-164: ffmpeg succeeds
CaptionsReturn ==
    /\ mg_op = "add_captions" /\ mg_pc = "run"
    /\ mg_output_exists' = TRUE
    /\ mg_tmp' = mg_tmp \ {"srt_file"}
    /\ mg_pc' = "returned"
    /\ UNCHANGED <<mg_op, mg_input_files, mg_progress_callback, mg_captions_ok, mg_i,
                   mg_probes, mg_total_duration, mg_process, mg_stderr, mg_stdout,
                   mg_callbacks, mg_error>>
    /\ UNCHANGED mgOthers

\* lines 159, 162-164: ffmpeg exits with a non-zero code
CaptionsRunFails ==
    /\ mg_op = "add_captions" /\ mg_pc = "run"
    /\ mg_output_exists' \in BOOLEAN
    /\ MgRaise(MgError("CalledProcessError", 1, << >>), {"srt_file"})
    /\ UNCHANGED <<mg_op, mg_input_files, mg_progress_callback, mg_captions_ok, mg_i,
                   mg_probes, mg_total_duration, mg_process, mg_stderr, mg_stdout,
                   mg_callbacks>>
    /\ UNCHANGED mgOthers

----------------------------------------------------------------------------
(* ReelGenerator.add_title_screen, video_processing/reel_generator.py lines 214-272 *)

\* line 248: the ffmpeg run that renders title.mp4 fails, outside the try
\* statement; it may have created the file before failing
TitleRenderFails ==
    /\ mg_op = "add_title_screen" /\ mg_pc = "temp"
    /\ mg_pc' = "raised"
    /\ mg_error' = MgError("CalledProcessError", 1, << >>)
    /\ \E created \in BOOLEAN :
          mg_tmp' = IF created THEN mg_tmp \cup {"title.mp4"} ELSE mg_tmp
    /\ UNCHANGED <<mg_op, mg_input_files, mg_progress_callback, mg_captions_ok, mg_i,
                   mg_probes, mg_total_duration, mg_output_exists, mg_process, mg_stderr,
                   mg_stdout, mg_callbacks>>
    /\ UNCHANGED mgOthers

\* lines 237-248
TitleRendered ==
    /\ mg_op = "add_title_screen" /\ mg_pc = "temp"
    /\ mg_tmp' = mg_tmp \cup {"title.mp4"}
    /\ mg_pc' = "title_temp"
    /\ UNCHANGED <<mg_op, mg_input_files, mg_progress_callback, mg_captions_ok, mg_i,
                   mg_probes, mg_total_duration, mg_output_exists, mg_process, mg_stderr,
                   mg_stdout, mg_callbacks, mg_error>>
    /\ UNCHANGED mgOthers

\* lines 252, 269-272: NamedTemporaryFile fails or, with the file created, a
\* write fails; concat_list is not assigned yet, so the finally clause removes
\* title.mp4 and then raises UnboundLocalError at line 272
TitleTempFails ==
    /\ mg_op = "add_title_screen" /\ mg_pc = "title_temp"
    /\ mg_pc' = "raised"
    /\ mg_error' = MgError("UnboundLocalError", None, << >>)
    /\ \E created \in BOOLEAN :
          mg_tmp' = (IF created THEN mg_tmp \cup {"concat_list"} ELSE mg_tmp) \ {"title.mp4"}
    /\ UNCHANGED <<mg_op, mg_input_files, mg_progress_callback, mg_captions_ok, mg_i,
                   mg_probes, mg_total_duration, mg_output_exists, mg_process, mg_stderr,
                   mg_stdout, mg_callbacks>>
    /\ UNCHANGED mgOthers

\* lines 252-255
TitleTempWritten ==
    /\ mg_op = "add_title_screen" /\ mg_pc = "title_temp"
    /\ mg_tmp' = mg_tmp \cup {"concat_list"}
    /\ mg_pc' = "run"
    /\ UNCHANGED <<mg_op, mg_input_files, mg_progress_callback, mg_captions_ok, mg_i,
                   mg_probes, mg_total_duration, mg_output_exists, mg_process, mg_stderr,
                   mg_stdout, mg_callbacks, mg_error>>
    /\ UNCHANGED mgOthers

\* lines 257-272: ffmpeg succeeds
TitleReturn ==
    /\ mg_op = "add_title_screen" /\ mg_pc = "run"
    /\ mg_output_exists' = TRUE
    /\ mg_tmp' = mg_tmp \ {"title.mp4", "concat_list"}
    /\ mg_pc' = "returned"
    /\ UNCHANGED <<mg_op, mg_input_files, mg_progress_callback, mg_captions_ok, mg_i,
                   mg_probes, mg_total_duration, mg_process, mg_stderr, mg_stdout,
                   mg_callbacks, mg_error>>
    /\ UNCHANGED mgOthers

\* lines 266, 269-272: ffmpeg exits with a non-zero code
TitleMergeFails ==
    /\ mg_op = "add_title_screen" /\ mg_pc = "run"
    /\ mg_output_exists' \in BOOLEAN
    /\ MgRaise(MgError("CalledProcessError", 1, << >>), {"title.mp4", "concat_list"})
    /\ UNCHANGED <<mg_op, mg_input_files, mg_progress_callback, mg_captions_ok, mg_i,
                   mg_probes, mg_total_duration, mg_process, mg_stderr, mg_stdout,
                   mg_callbacks>>
    /\ UNCHANGED mgOthers

MgNext ==
    \/ MergeTempFails
    \/ MergeTempWriteFails
    \/ MergeTempWritten
    \/ MergeProbe
    \/ MergePopen
    \/ MergePopenFails
    \/ ProcessOpensOutput
    \/ ProcessWritesStderr
    \/ ProcessWritesStdout
    \/ ProcessExits
    \/ ProcessTerminated
    \/ MonitorLine
    \/ MonitorLineRaises
    \/ MonitorEnd
    \/ MergeReturn
    \/ MergeRaises
    \/ CaptionsTempFails
    \/ CaptionsWriteRaises
    \/ CaptionsTempWritten
    \/ CaptionsReturn
    \/ CaptionsRunFails
    \/ TitleRenderFails
    \/ TitleRendered
    \/ TitleTempFails
    \/ TitleTempWritten
    \/ TitleReturn
    \/ TitleMergeFails

MgIdle ==
    /\ mg_op = "merge_clips"
    /\ mg_input_files = 0
    /\ mg_progress_callback = FALSE
    /\ mg_captions_ok = TRUE
    /\ mg_i = 0
    /\ mg_probes = << >>
    /\ mg_total_duration = 0
    /\ mg_tmp = {}
    /\ mg_output_exists = FALSE
    /\ mg_process = NoProcess
    /\ mg_stderr = << >>
    /\ mg_stdout = 0
    /\ mg_callbacks = << >>
    /\ mg_pc = "returned"
    /\ mg_error = None

----------------------------------------------------------------------------
(* AudioAnalyzer.analyze_crowd_reaction, audio_analyzer.py lines 84-134 *)

\* sample_rate: int = 22050, line 7
SampleRate == 22050

\* line 112: "2048 is default hop length"
AssumedHopLength == 2048

\* window_size arguments, milliseconds
WindowSizes == {50, 100, 200, 300}

\* The band means of one spectrogram frame: quiet, loud in the mid band, loud
\* in the high band
BandFrames ==
    { [mid |-> -50, high |-> -60], [mid |-> -20, high |-> -60], [mid |-> -50, high |-> -30] }

BandSeries == UNION {[1..n -> BandFrames] : n \in 0..MaxBandFrames}

\* line 112: int(window_size * self.sample_rate / 2048), window_size in milliseconds
WindowFrames(window_size) == (window_size * SampleRate) \div (AssumedHopLength * 1000)

\* line 108: librosa.times_like with its defaults (hop of 512 samples); the time
\* of frame i (counted from 0) in samples
TimesLike(i) == i * 512

\* np.mean of frames i .. i+window_frames-1 (counted from 0) of one band, as
\* the sum and the count
RECURSIVE BandSum(_, _, _, _)
BandSum(bands, band, i, n) ==
    IF n = 0 THEN 0
    ELSE (IF band = "mid" THEN bands[i + 1].mid ELSE bands[i + 1].high)
         + BandSum(bands, band, i + 1, n - 1)

\* line 125: energy_mid > -30 or energy_high > -40, the energies being means
\* over window_frames frames
IsReaction(bands, i, window_frames) ==
    \/ BandSum(bands, "mid", i, window_frames) > -30 * window_frames
    \/ BandSum(bands, "high", i, window_frames) > -40 * window_frames

\* lines 126-132
Reaction(bands, i, window_frames) ==
    [start_time |-> TimesLike(i),
     end_time |-> TimesLike(i + window_frames),
     energy_mid |-> Rat(BandSum(bands, "mid", i, window_frames), window_frames),
     energy_high |-> Rat(BandSum(bands, "high", i, window_frames), window_frames)]

CrInit ==
    /\ cr_window_size \in WindowSizes
    /\ cr_bands \in BandSeries
    /\ cr_window_frames = None
    /\ cr_i = 0
    /\ cr_reactions = << >>
    /\ cr_pc = "start"
    /\ cr_error = ""

\* lines 98-114: window_frames is not 0 and range(0, len(times) - window_frames,
\* window_frames) is built
CrStart ==
    /\ cr_pc = "start"
    /\ WindowFrames(cr_window_size) # 0
    /\ cr_window_frames' = WindowFrames(cr_window_size)
    /\ cr_pc' = "loop"
    /\ UNCHANGED <<cr_window_size, cr_bands, cr_i, cr_reactions, cr_error>>
    /\ UNCHANGED crOthers

\* lines 112-114: window_frames is 0 and range() rejects the step
CrStartRaises ==
    /\ cr_pc = "start"
    /\ WindowFrames(cr_window_size) = 0
    /\ cr_window_frames' = 0
    /\ cr_pc' = "error"
    /\ cr_error' = "ValueError: range() arg 3 must not be zero"
    /\ UNCHANGED <<cr_window_size, cr_bands, cr_i, cr_reactions>>
    /\ UNCHANGED crOthers

\* lines 114-132: one pass of the loop, for i < len(times) - window_frames
CrWindow ==
    /\ cr_pc = "loop"
    /\ cr_i < Len(cr_bands) - cr_window_frames
    /\ cr_reactions' =
          IF IsReaction(cr_bands, cr_i, cr_window_frames)
          THEN Append(cr_reactions, Reaction(cr_bands, cr_i, cr_window_frames))
          ELSE cr_reactions
    /\ cr_i' = cr_i + cr_window_frames
    /\ UNCHANGED <<cr_window_size, cr_bands, cr_window_frames, cr_pc, cr_error>>
    /\ UNCHANGED crOthers

\* lines 114, 134: the range is exhausted
CrReturn ==
    /\ cr_pc = "loop"
    /\ cr_i >= Len(cr_bands) - cr_window_frames
    /\ cr_pc' = "done"
    /\ UNCHANGED <<cr_window_size, cr_bands, cr_window_frames, cr_i, cr_reactions, cr_error>>
    /\ UNCHANGED crOthers

CrNext ==
    \/ CrStart
    \/ CrStartRaises
    \/ CrWindow
    \/ CrReturn

CrIdle ==
    /\ cr_window_size = 1000
    /\ cr_bands = << >>
    /\ cr_window_frames = None
    /\ cr_i = 0
    /\ cr_reactions = << >>
    /\ cr_pc = "done"
    /\ cr_error = ""

----------------------------------------------------------------------------
Init == HLInit /\ ApIdle /\ FcIdle /\ ExIdle /\ RlIdle /\ MgIdle /\ CrIdle

\* One call of detect_highlights
Spec == Init /\ [][Next]_vars

\* Two calls of detect_highlights on the same video
SpecRerun == Init /\ [][NextRerun]_vars

InitApplause == ApInit /\ FcIdle /\ HLIdle /\ ExIdle /\ RlIdle /\ MgIdle /\ CrIdle

\* One call of detect_applause
SpecApplause == InitApplause /\ [][ApNext]_vars

InitFace == FcInit /\ ApIdle /\ HLIdle /\ ExIdle /\ RlIdle /\ MgIdle /\ CrIdle

\* One call of detect_crowd_reaction
SpecFace == InitFace /\ [][FcNext]_vars

InitExtract == ExInit /\ ApIdle /\ FcIdle /\ HLIdle /\ RlIdle /\ MgIdle /\ CrIdle

\* One call of extract_highlight_clips
SpecExtract == InitExtract /\ [][ExNext]_vars

InitReel == RlInit /\ ApIdle /\ FcIdle /\ HLIdle /\ ExIdle /\ MgIdle /\ CrIdle

\* One call of create_reel
SpecReel == InitReel /\ [][RlNext]_vars

InitTranscode == MgInit /\ ApIdle /\ FcIdle /\ HLIdle /\ ExIdle /\ RlIdle /\ CrIdle

\* One call of merge_clips, add_captions or add_title_screen, with the ffmpeg
\* process of merge_clips running beside it
SpecTranscode == InitTranscode /\ [][MgNext]_vars

InitCrowd == CrInit /\ ApIdle /\ FcIdle /\ HLIdle /\ ExIdle /\ RlIdle /\ MgIdle

\* One call of analyze_crowd_reaction
SpecCrowd == InitCrowd /\ [][CrNext]_vars

----------------------------------------------------------------------------
(* detect_highlights followed by extract_highlight_clips on the same video *)

\* lines 147, 166-174: the list detect_highlights returned is passed to
\* extract_highlight_clips, which opens the same video again
StartExtract ==
    /\ pc = "done"
    /\ ex_pc = "done"
    /\ ex_i = 0
    /\ ex_highlights' = highlights
    /\ ex_fps' = fps
    /\ ex_frame_count' = Len(video)
    /\ ex_add_visualization' \in BOOLEAN
    /\ ex_i' = 0
    /\ ex_clips' = << >>
    /\ ex_output_paths' = << >>
    /\ ex_pc' = "loop"
    /\ UNCHANGED exOthers

NextPipeline ==
    \/ EnterDetect
    \/ EnterDetectRaises
    \/ HighlightFrame
    \/ ClosingFrame
    \/ IdleFrame
    \/ FrameRaises
    \/ EndOfStream
    \/ StartExtract
    \/ ExtractClip
    \/ ExtractReturn

SpecPipeline == Init /\ [][NextPipeline]_vars

----------------------------------------------------------------------------
(* Properties of detect_highlights *)

\* The fusion rule as the specification words it: important detections
\* present, or a positive or surprised face reaction of a large enough crowd,
\* or the timestamp inside an applause segment.
FusionRule(frame, timestamp) ==
    \/ Len(ImportantDetections(frame.boxes)) > 0
    \/ /\ analyze_faces
       /\ LET s == FaceAnalysis(frame, TRUE)
          IN s.reaction \in {"positive", "surprised"} /\ s.face_count >= DefaultMinFaces
    \/ HasApplause(timestamp, analyze_audio, applause_segments)

IsHighlightFrame(i) == FusionRule(video[i], Timestamp(i, fps))

\* a..b is a maximal run of highlight frames among the frames 1..pos
MaximalRun(a, b) ==
    /\ a <= b
    /\ \A i \in a..b : IsHighlightFrame(i)
    /\ a = 1 \/ ~IsHighlightFrame(a - 1)
    /\ b = pos \/ ~IsHighlightFrame(b + 1)

\* The boundaries of the qualifying maximal runs that have ended: by a
\* non-highlight frame, or by the end of the stream.
QualifyingRuns ==
    { <<Timestamp(r[1], fps), Timestamp(r[2], fps)>> :
        r \in { q \in (1..pos) \X (1..pos) :
                  /\ MaximalRun(q[1], q[2])
                  /\ q[2] < pos \/ pc = "done"
                  /\ Timestamp(q[2], fps) - Timestamp(q[1], fps) >= min_duration } }

\* The list the call hands to its caller; a call that raises returns nothing.
Returned == IF pc = "done" THEN highlights ELSE << >>

\* C1: when a call has ended, the returned intervals are exactly the
\* qualifying maximal runs of highlight frames, one interval per run, with the
\* run's first and last timestamps as start_time and end_time.
C1_OneIntervalPerQualifyingRun ==
    pc \in {"done", "error"} =>
        /\ { <<Returned[k].start_time, Returned[k].end_time>> : k \in DOMAIN Returned }
              = QualifyingRuns
        /\ Len(Returned) = Cardinality(QualifyingRuns)

\* C2: every interval in the result list, at every point of the run, lasts at
\* least min_duration.
C2_EmittedMeetMinDuration ==
    \A k \in DOMAIN highlights :
        highlights[k].end_time - highlights[k].start_time >= min_duration

\* C2 witness: a finished call that returned two intervals, the first closed
\* by a non-highlight frame and the second by the end of the stream.
C2_Witness ==
    /\ pc = "done"
    /\ Len(highlights) = 2
    /\ current_highlight # None
    /\ highlights[2].start_time = current_highlight.start_time
    /\ highlights[1].end_time < current_highlight.start_time

\* C3: an interval open at the end of the stream is emitted iff it lasts at
\* least min_duration, and when emitted with face samples it carries
\* avg_face_analysis.
C3_EndOfStreamFinalizesAlike ==
    (pc = "done" /\ current_highlight # None) =>
        LET long == current_highlight.end_time - current_highlight.start_time
                        >= min_duration
            emitted == /\ Len(highlights) > 0
                       /\ Last(highlights).start_time = current_highlight.start_time
                       /\ Last(highlights).end_time = current_highlight.end_time
        IN /\ long <=> emitted
           /\ (emitted /\ current_highlight.face_analysis # << >>)
                 => "avg_face_analysis" \in DOMAIN Last(highlights)

\* C4: for the frame just processed the evaluation of is_highlight completes
\* and yields the fusion rule's value.
C4_FusionRuleEvaluated ==
    (pc \in {"loop", "error"} /\ pos > 0) =>
        /\ pc = "loop"
        /\ LET frame == video[pos]
               ts == Timestamp(pos, fps)
           IN IsHighlight(ImportantDetections(frame.boxes),
                          FaceAnalysis(frame, analyze_faces),
                          HasApplause(ts, analyze_audio, applause_segments))
                 = Value(FusionRule(frame, ts))

\* C5: when the frame just processed is a non-highlight frame that ends a run
\* of highlight frames of at least min_duration whose interval holds face
\* samples, the call has not raised, no interval is open and the last result
\* entry is that run with avg_face_analysis attached (mean face_count over the
\* samples, and a happy_ratio and a surprise_ratio).
C5_CloseWithFaceSamples ==
    \A a \in 1..pos :
        ( /\ pc \in {"loop", "error"}
          /\ pos >= 2
          /\ analyze_faces
          /\ ~IsHighlightFrame(pos)
          /\ \A i \in a..(pos - 1) : IsHighlightFrame(i)
          /\ a = 1 \/ ~IsHighlightFrame(a - 1)
          /\ a <= pos - 1
          /\ Timestamp(pos - 1, fps) - Timestamp(a, fps) >= min_duration )
        => /\ pc = "loop"
           /\ current_highlight = None
           /\ Len(highlights) > 0
           /\ LET h == Last(highlights)
              IN /\ h.start_time = Timestamp(a, fps)
                 /\ h.end_time = Timestamp(pos - 1, fps)
                 /\ "avg_face_analysis" \in DOMAIN h
                 /\ DOMAIN h.avg_face_analysis
                       = {"face_count", "happy_ratio", "surprise_ratio"}
                 /\ h.avg_face_analysis.face_count
                       = MeanInts([i \in DOMAIN h.face_analysis |->
                                      h.face_analysis[i].face_count])

\* C6: a second call on the same video with the same arguments ends as the
\* first did: the same exception, or a list of the same length with the same
\* start_time and end_time at every index.
C6_SecondCallSameOutcome ==
    (run = 2 /\ pc \in {"done", "error"}) => Outcome = first_outcome

\* C6 witness: the second call returned two intervals, the last one open at
\* the end of the stream.
C6_Witness ==
    /\ run = 2
    /\ pc = "done"
    /\ Len(highlights) = 2
    /\ current_highlight # None

----------------------------------------------------------------------------
(* Properties of detect_applause *)

C7_Input ==
    /\ ap_onsets = <<0, 3, 9, 20>>
    /\ ap_min_duration = ApplauseDefaultMinDuration

\* C7 as stated: for the onsets 0.0, 0.3, 0.9, 2.0 the first three are merged
\* into the segment [0.0, 0.9], which is returned, and the onset at 2.0 starts
\* a new segment.
C7_MergedSegmentReturned ==
    C7_Input =>
        /\ ap_i = 3 => ap_current_segment = Segment(0, 9)
        /\ ap_i = 4 => ap_current_segment = Segment(20, 20)
        /\ ap_pc = "done" => \E k \in DOMAIN ap_segments : ap_segments[k] = Segment(0, 9)

\* C7 amended: for the onsets 0.0, 0.3, 0.9, 2.0 only 0.0 and 0.3 are merged,
\* into [0.0, 0.3]; the onset at 0.9 lies 0.6s after that segment's end, so it
\* closes it (dropped: 0.3 < 0.5) and starts a new segment, as does the onset
\* at 2.0; the returned list is empty.
C7_OnlyFirstTwoMerge ==
    C7_Input =>
        /\ ap_i = 2 => ap_current_segment = Segment(0, 3)
        /\ ap_i = 3 => ap_current_segment = Segment(9, 9)
        /\ ap_i = 4 => ap_current_segment = Segment(20, 20)
        /\ ap_segments = << >>

C7_Witness == C7_Input /\ ap_pc = "done"

\* C8: after any number of onsets the open segment spans from the latest
\* onset that lies at least 0.5s after its predecessor (or the first onset) to
\* the latest onset; the result list holds, in order, exactly the segments so
\* closed (at the end of input also the last one) that last at least
\* min_duration; the listed segments have start <= end and consecutive ones
\* lie at least 0.5s apart.
C8_GroupingRule ==
    LET ts == ap_onsets
        n == ap_i
        starts == {i \in 1..n : i = 1 \/ ts[i] - ts[i - 1] >= ApplauseMergeGap}
        startOf(b) == CHOOSE a \in starts :
                          a <= b /\ \A c \in starts : c <= b => c <= a
        ends == {b \in 1..n : IF b < n THEN b + 1 \in starts ELSE ap_pc = "done"}
        kept == {Segment(ts[startOf(b)], ts[b]) :
                    b \in {e \in ends : ts[e] - ts[startOf(e)] >= ap_min_duration}}
    IN /\ {ap_segments[k] : k \in DOMAIN ap_segments} = kept
       /\ Len(ap_segments) = Cardinality(kept)
       /\ \A k \in DOMAIN ap_segments : ap_segments[k].start <= ap_segments[k].end
       /\ \A k \in 1..(Len(ap_segments) - 1) :
             /\ ap_segments[k].start < ap_segments[k + 1].start
             /\ ap_segments[k + 1].start - ap_segments[k].end >= ApplauseMergeGap
       /\ ap_current_segment =
             IF n = 0 THEN None ELSE Segment(ts[startOf(n)], ts[n])

\* C8 witness: four onsets, of which a first group is returned and a later
\* group is dropped for lasting less than min_duration.
C8_Witness ==
    /\ ap_pc = "done"
    /\ ap_min_duration = ApplauseDefaultMinDuration
    /\ Len(ap_onsets) = 4
    /\ Len(ap_segments) = 1
    /\ ap_segments[1].end < ap_onsets[4]

----------------------------------------------------------------------------
(* Properties of detect_crowd_reaction *)

\* C9: with fewer than min_faces faces detected the call returns reaction
\* neutral, confidence 0.0 and face_count = number of faces, and has not
\* invoked analyze_emotions.
C9_SmallCrowdShortCircuit ==
    (fc_pc = "returned" /\ fc_result # None /\ Len(fc_faces) < fc_min_faces) =>
        /\ fc_result.reaction = "neutral"
        /\ fc_result.confidence = Rat(0, 1)
        /\ fc_result.face_count = Len(fc_faces)
        /\ fc_emotion_calls = 0

\* C9 witness: 3 faces with min_faces = 5
C9_Witness ==
    /\ fc_pc = "returned"
    /\ fc_result # None
    /\ Len(fc_faces) = 3
    /\ fc_min_faces = 5

RatEq(a, b) == a.num * b.den = b.num * a.den

----------------------------------------------------------------------------
(* Properties of extract_highlight_clips *)

\* C11: extract_highlight_clips returns exactly one path per input highlight,
\* in input order (the i-th path is the file of the i-th highlight and holds
\* frames of that highlight's range only), with and without visualization and
\* however many frames could be read.
C11_OnePathPerHighlight ==
    /\ Len(ex_output_paths) = ex_i
    /\ Len(ex_clips) = ex_i
    /\ \A i \in 1..ex_i :
          /\ ex_output_paths[i] = ClipPath(i - 1)
          /\ \A k \in 1..Len(ex_clips[i]) :
                /\ ex_clips[i][k].frame >= FrameIndex(ex_highlights[i].start_time, ex_fps)
                /\ ex_clips[i][k].frame < FrameIndex(ex_highlights[i].end_time, ex_fps)
                /\ ex_clips[i][k].overlay = ex_add_visualization
    /\ ex_pc = "done" => ex_i = Len(ex_highlights)

\* A returned call of two highlights, the first with no frame read and the
\* second cut short by the end of the video
C11_Witness ==
    /\ ex_pc = "done"
    /\ Len(ex_highlights) = 2
    /\ Len(ex_output_paths) = 2
    /\ Len(ex_clips[1]) = 0
    /\ Len(ex_clips[2]) > 0
    /\ Len(ex_clips[2]) < FrameIndex(ex_highlights[2].end_time, ex_fps)
                          - FrameIndex(ex_highlights[2].start_time, ex_fps)

\* The interval's frame range is empty, or a read failed before the range was
\* exhausted (a seek past the end of the video shows as a failed first read)
IntervalFailed(i) ==
    LET wanted == FrameIndex(ex_highlights[i].end_time, ex_fps)
                  - FrameIndex(ex_highlights[i].start_time, ex_fps)
    IN wanted <= 0 \/ Len(ex_clips[i]) < wanted

\* C12: an interval whose seek or read fails, or whose frame range is empty, is
\* reported as a failure of that interval only: the other intervals are still
\* extracted, and the failed one is not returned as an ordinary clip path.
C12_FailedIntervalDistinguishable ==
    ex_pc = "done" =>
        /\ Len(ex_clips) = Len(ex_highlights)
        /\ \A i \in 1..Len(ex_highlights) :
              IntervalFailed(i) =>
                  ~(i <= Len(ex_output_paths) /\ ex_output_paths[i] = ClipPath(i - 1))

----------------------------------------------------------------------------
(* Properties of create_reel *)

\* The filters of one kind, in the order they were appended
RECURSIVE FiltersOf(_, _)
FiltersOf(kind, filters) ==
    IF filters = << >> THEN << >>
    ELSE (IF Head(filters).filter = kind THEN <<Head(filters)>> ELSE << >>)
         \o FiltersOf(kind, Tail(filters))

\* C13: for n >= 1 clips the per-clip trim duration d satisfies
\* n*d + (n-1)*transition_duration = duration, and every clip is trimmed to
\* that same d (one trim per clip handled, from 0 to d).
C13_DurationLaw ==
    rl_pc \in {"loop", "done"} =>
        /\ rl_total_clips >= 1
        /\ rl_total_clips * rl_clip_duration.num
           + (rl_total_clips - 1) * rl_transition_duration * rl_clip_duration.den
           = rl_duration * rl_clip_duration.den
        /\ LET trims == FiltersOf("trim", rl_filter_complex)
           IN /\ Len(trims) = rl_i
              /\ \A k \in 1..Len(trims) :
                    /\ trims[k].inputs = <<Label("in_v", k - 1)>>
                    /\ trims[k].start = 0
                    /\ RatEq(trims[k].end, rl_clip_duration)
        /\ rl_pc = "done" => rl_i = rl_total_clips

\* A finished graph of three clips whose trim duration is not a whole number
\* of tenths of a second
C13_Witness ==
    /\ rl_pc = "done"
    /\ rl_total_clips = 3
    /\ rl_transition_duration > 0
    /\ rl_clip_duration.num % rl_clip_duration.den # 0
    /\ Len(FiltersOf("trim", rl_filter_complex)) = 3

\* Where the second input of the k-th crossfade starts in the output: at the
\* crossfade's offset; the first clip starts at 0
C14_ClipStart(k, xfades) == IF k = 1 THEN Rat(0, 1) ELSE xfades[k - 1].offset

\* C14: the graph for n clips holds exactly n-1 crossfades; for 3 clips,
\* transition_duration 1s and duration 17s every clip is trimmed to 5s and each
\* of the 2 crossfades has its offset 4s after the start of the preceding clip
\* in the output timeline.
C14_CrossfadeOffsets ==
    rl_pc = "done" =>
        LET xfades == FiltersOf("xfade", rl_filter_complex)
            trims == FiltersOf("trim", rl_filter_complex)
        IN /\ Len(xfades) = rl_total_clips - 1
           /\ (rl_total_clips = 3 /\ rl_transition_duration = 10 /\ rl_duration = 170) =>
                 /\ \A k \in 1..Len(trims) : RatEq(trims[k].end, Rat(50, 1))
                 /\ Len(xfades) = 2
                 /\ \A k \in 1..Len(xfades) :
                       LET start == C14_ClipStart(k, xfades)
                       IN RatEq(xfades[k].offset, Rat(start.num + 40 * start.den, start.den))

----------------------------------------------------------------------------
(* Properties of merge_clips, add_captions and add_title_screen *)

\* C15: within one merge_clips call every value passed to progress_callback is
\* an integer in 0..100 and the values passed never decrease, whatever lines
\* the process prints; a line whose time marker cannot be parsed, or a total
\* duration of 0, never makes the call raise.
C15_ProgressContract ==
    mg_op = "merge_clips" =>
        /\ \A k \in 1..Len(mg_callbacks) : mg_callbacks[k] \in 0..100
        /\ \A k \in 1..(Len(mg_callbacks) - 1) : mg_callbacks[k] <= mg_callbacks[k + 1]
        /\ ~(/\ mg_pc = "raised"
             /\ mg_error.type \in {"ZeroDivisionError", "ValueError", "IndexError"})

\* C16: with or without a progress_callback, while merge_clips waits for the
\* process (reading its stderr or in wait()) and the process has not exited,
\* one of the two can take a step: the process is never blocked on a full
\* pipe that the parent is not going to read.
C16_NoPipeDeadlock ==
    (mg_op = "merge_clips" /\ mg_pc \in {"monitor", "wait"}
     /\ mg_process.status = "running") =>
        \/ ENABLED (ProcessOpensOutput \/ ProcessWritesStderr \/ ProcessWritesStdout
                    \/ ProcessExits)
        \/ ENABLED (MonitorLine \/ MonitorLineRaises \/ MonitorEnd \/ MergeReturn
                    \/ MergeRaises)

\* C17: when the process of merge_clips has exited with a non-zero code the
\* call raises instead of returning, and the error raised for the exit code
\* carries every line the process wrote to stderr, with and without a
\* progress_callback.
C17_ErrorCarriesStderr ==
    mg_op = "merge_clips" =>
        /\ (mg_process.status = "exited" /\ mg_process.returncode # 0) => mg_pc # "returned"
        /\ (mg_pc = "raised" /\ mg_error.type = "CalledProcessError") =>
               Len(mg_error.output) = mg_process.stderr_written

\* C18: after merge_clips, add_captions or add_title_screen has returned or
\* raised, none of its temporary files (concat list, subtitle file, title.mp4)
\* exists, whichever step failed.
C18_NoTempFileLeft ==
    mg_pc \in {"returned", "raised"} => mg_tmp = {}

\* C19: after merge_clips has raised because the process exited with a
\* non-zero code or was terminated, no file exists at output_file.
C19_NoPartialOutput ==
    (/\ mg_op = "merge_clips"
     /\ mg_pc = "raised"
     /\ mg_error.type = "CalledProcessError"
     /\ mg_process.returncode # 0) => ~mg_output_exists

\* total_duration as the claim gives it: the probed durations of the clips
\* that probed, 10 seconds for each of the others
RECURSIVE C20_ExpectedTotal(_)
C20_ExpectedTotal(probes) ==
    IF probes = << >> THEN 0
    ELSE (IF Head(probes).raised = "" THEN Head(probes).duration ELSE ProbeFallbackDuration)
         + C20_ExpectedTotal(Tail(probes))

----------------------------------------------------------------------------
(* Properties of analyze_crowd_reaction *)

\* The windows the series holds in full: window k covers the frames
\* k*window_frames .. (k+1)*window_frames - 1, counted from 0
C21_Windows(window_frames) ==
    {k \in 0..Len(cr_bands) : (k + 1) * window_frames <= Len(cr_bands)}

\* The windows of C21_Windows from window k on that are to be emitted, in order
RECURSIVE C21_Expected(_, _)
C21_Expected(k, window_frames) ==
    IF k \notin C21_Windows(window_frames) THEN << >>
    ELSE (IF IsReaction(cr_bands, k * window_frames, window_frames)
          THEN << <<TimesLike(k * window_frames), TimesLike((k + 1) * window_frames)>> >>
          ELSE << >>)
         \o C21_Expected(k + 1, window_frames)

\* C21: for every window_size > 0 and every input length the call ends by
\* returning; the returned list holds exactly the windows of window_frames
\* frames (window k covering frames [k*window_frames, (k+1)*window_frames))
\* whose mean mid-band dB is > -30 or whose mean high-band dB is > -40, in
\* increasing time order with each end_time <= the next start_time, and is
\* empty for an input shorter than one window.
C21_WindowsEmitted ==
    cr_pc \in {"done", "error"} =>
        /\ cr_pc = "done"
        /\ [j \in DOMAIN cr_reactions |->
               <<cr_reactions[j].start_time, cr_reactions[j].end_time>>]
              = C21_Expected(0, cr_window_frames)
        /\ \A j \in 1..(Len(cr_reactions) - 1) :
              cr_reactions[j].end_time <= cr_reactions[j + 1].start_time
        /\ Len(cr_bands) < cr_window_frames => cr_reactions = << >>

----------------------------------------------------------------------------
(* Further properties of detect_highlights *)

\* C22: on a video that cannot be opened (no frame can be read, fps 0) the
\* call ends with an error, whatever analyze_audio and analyze_faces are; it
\* never returns a list.
C22_UnopenedVideoAborts ==
    (~video_opens /\ pc \in {"done", "error"}) => pc = "error"

\* The signals of the frame just read, as the interval stores them
C23_Detections(frame) ==
    LET d == ImportantDetections(frame.boxes)
    IN [i \in DOMAIN d |-> [class |-> d[i]]]

C23_FaceSample(frame) ==
    IF analyze_faces THEN <<FaceAnalysis(frame, TRUE)>> ELSE << >>

\* A step that processes a highlight frame at timestamp T
C23_Step ==
    (pos' = pos + 1 /\ pc' = "loop" /\ current_highlight' # None) =>
        LET T == Timestamp(pos', fps)
            frame == video'[pos']
            applause == HasApplause(T, analyze_audio, applause_segments)
            new == current_highlight'
        IN /\ new.end_time = T
           /\ new.start_time <= new.end_time
           /\ IF current_highlight = None
              THEN /\ new.start_time = T
                   /\ new.detections = C23_Detections(frame)
                   /\ new.face_analysis = C23_FaceSample(frame)
                   /\ new.has_applause = applause
              ELSE /\ new.start_time = current_highlight.start_time
                   /\ new.end_time >= current_highlight.end_time
                   /\ new.detections = current_highlight.detections \o C23_Detections(frame)
                   /\ new.face_analysis
                         = current_highlight.face_analysis \o C23_FaceSample(frame)
                   /\ new.has_applause = (current_highlight.has_applause \/ applause)

\* C23: each highlight frame at timestamp T sets end_time = T (and start_time
\* = T when it opens the interval), appends its important detections and its
\* face sample to the interval's lists and sets has_applause when T lies in an
\* applause segment; while the interval is open start_time <= end_time,
\* end_time never decreases, the lists only grow and has_applause never goes
\* back to false.
C23_OpenIntervalAccumulates == [][C23_Step]_vars

\* An open interval of three frames with two face samples or more, whose
\* applause flag was set by an earlier frame than the latest
C23_Witness ==
    /\ pc = "loop"
    /\ current_highlight # None
    /\ current_highlight.start_time < current_highlight.end_time
    /\ Len(current_highlight.detections) >= 2
    /\ Len(current_highlight.face_analysis) >= 2
    /\ current_highlight.has_applause
    /\ ~HasApplause(Timestamp(pos, fps), analyze_audio, applause_segments)

\* A step that processes a non-highlight frame (by the fusion rule)
C24_Step ==
    (pos' = pos + 1 /\ ~FusionRule(video'[pos'], Timestamp(pos', fps))) =>
        /\ current_highlight' = None
        /\ IF current_highlight = None
           THEN highlights' = highlights
           ELSE \/ highlights' = highlights
                \/ /\ Len(highlights') = Len(highlights) + 1
                   /\ SubSeq(highlights', 1, Len(highlights)) = highlights
                   /\ Last(highlights').start_time = current_highlight.start_time
                   /\ Last(highlights').end_time = current_highlight.end_time

\* C24: a non-highlight frame read while no interval is open changes neither
\* the result list nor the absent current interval; read while an interval is
\* open it leaves no open interval and changes the result list at most by
\* appending that interval.
C24_NonHighlightFrameEffect == [][C24_Step]_vars

----------------------------------------------------------------------------
(* Properties of extract_highlight_clips: frame numbers *)

\* round(time * fps), rounding a half to the even neighbour; the time is in
\* tenths of a second
C25_Round(time, fps_) ==
    LET q == (time * fps_) \div 10
        r == (time * fps_) % 10
    IN IF r < 5 THEN q
       ELSE IF r > 5 THEN q + 1
       ELSE IF q % 2 = 0 THEN q ELSE q + 1

\* C25: the clip of every interval handled starts at frame
\* round(start_time * fps) and is read up to frame round(end_time * fps).
C25_FramesRounded ==
    \A i \in 1..Len(ex_clips) :
        LET start_frame == C25_Round(ex_highlights[i].start_time, ex_fps)
            end_frame == C25_Round(ex_highlights[i].end_time, ex_fps)
        IN ex_clips[i] = ReadFrames(start_frame, end_frame - start_frame,
                                    ex_frame_count, ex_add_visualization)

----------------------------------------------------------------------------
(* Properties of detect_highlights: the frame loop *)

\* C26: with analyze_audio set, from before the first frame is read to the
\* end of the call the applause segments are those of the whole audio track,
\* however many frames have been processed.
C26_SegmentsPrecomputed ==
    (analyze_audio /\ (pc \in {"loop", "done"} \/ pos > 0)) =>
        applause_segments = detect_applause(audio_onsets, ApplauseDefaultMinDuration)

\* The second frame lies in an applause segment that ends at an onset later
\* than the frame
C26_Witness ==
    /\ pc = "loop"
    /\ analyze_audio
    /\ pos = 2
    /\ \E k \in DOMAIN applause_segments :
          /\ applause_segments[k].start <= Timestamp(1, fps)
          /\ Timestamp(pos, fps) < applause_segments[k].end

\* The emitted intervals are ordered and disjoint, a non-highlight frame lies
\* strictly between each two neighbours, and the interval open in the loop
\* starts after the last emitted one
C27_Ordered ==
    /\ \A k \in 1..(Len(highlights) - 1) :
          /\ highlights[k].end_time < highlights[k + 1].start_time
          /\ \E j \in 1..pos :
                /\ ~IsHighlightFrame(j)
                /\ highlights[k].end_time < Timestamp(j, fps)
                /\ Timestamp(j, fps) < highlights[k + 1].start_time
    /\ (pc = "loop" /\ current_highlight # None /\ highlights # << >>) =>
          Last(highlights).end_time < current_highlight.start_time

\* No step removes or changes an entry of the result list
C27_Step ==
    /\ Len(highlights') >= Len(highlights)
    /\ \A k \in DOMAIN highlights : highlights'[k] = highlights[k]

\* C27: the result list is append-only with unchanged entries, and after
\* every step its intervals are ordered by time and pairwise disjoint with a
\* non-highlight frame timestamp strictly between neighbours, and the open
\* interval starts strictly after the last emitted interval's end_time.
C27_AppendOnlyOrdered == [][C27_Step /\ C27_Ordered']_vars

\* One interval emitted and a later one open, both lasting min_duration or more
C27_Witness ==
    /\ pc = "loop"
    /\ Len(highlights) = 1
    /\ current_highlight # None
    /\ current_highlight.end_time - current_highlight.start_time >= min_duration
    /\ highlights[1].end_time < current_highlight.start_time

----------------------------------------------------------------------------
(* Properties of detection followed by extraction *)

\* The 0-based source indices of the frames written to clip i
C28_ClipIndices(i) == [n \in 1..Len(ex_clips[i]) |-> ex_clips[i][n].frame]

\* C28: the clip written for an interval that detect_highlights emitted from
\* the run of highlight frames with 0-based indices k..m consists of exactly
\* the source frames k..m. The n-th frame read by detect_highlights has
\* 0-based index n - 1.
C28_ClipIsRun ==
    \A i \in 1..Len(ex_clips) :
        \A a \in 1..Len(video), b \in 1..Len(video) :
            ( /\ pc = "done"
              /\ ex_highlights = highlights
              /\ highlights[i].start_time = Timestamp(a, fps)
              /\ highlights[i].end_time = Timestamp(b, fps)
              /\ (highlights[i].start_time * fps) % 10 = 0
              /\ (highlights[i].end_time * fps) % 10 = 0 )
            => LET k == a - 1
                   m == b - 1
               IN C28_ClipIndices(i) = [n \in 1..(m - k + 1) |-> k + n - 1]

----------------------------------------------------------------------------
(* Properties of detect_highlights: the face-reaction signal *)

\* C29: for the frame just read, the face analysis reports the reaction
\* neutral, and is_highlight evaluated with the face analysis of the call is
\* what it is without face analysis: face analysis never changes which frames
\* are highlight frames.
C29_FacesNeverDecide ==
    (pc \in {"loop", "error"} /\ pos > 0) =>
        LET frame == video[pos]
            important == ImportantDetections(frame.boxes)
            applause == HasApplause(Timestamp(pos, fps), analyze_audio, applause_segments)
        IN /\ FaceAnalysis(frame, TRUE).reaction = "neutral"
           /\ IsHighlight(important, FaceAnalysis(frame, analyze_faces), applause)
                 = IsHighlight(important, None, applause)

----------------------------------------------------------------------------
(* Properties of create_reel: the shape of the filter graph *)

\* The positions of the filters whose output is the label l
C30_Definers(l) ==
    {p \in DOMAIN rl_filter_complex :
        /\ "output" \in DOMAIN rl_filter_complex[p]
        /\ rl_filter_complex[p].output = l}

\* The label l is the output of one filter only, a filter of the given kind
C30_DefinedOnceBy(l, kind) ==
    /\ Cardinality(C30_Definers(l)) = 1
    /\ \A p \in C30_Definers(l) : rl_filter_complex[p].filter = kind

\* C30: in the filter graph built for n >= 1 clips every stream label is the
\* output of exactly one filter, every trimmed stream [v_i] is an input of
\* some filter or the final label, each crossfade takes the chain so far and
\* the trimmed stream of the next clip, and the final label [v_{n-1}] is the
\* output of the last crossfade (of the single trim when n = 1).
C30_ChainWellFormed ==
    rl_pc = "done" =>
        LET n == rl_total_clips
            fc == rl_filter_complex
            xfades == FiltersOf("xfade", fc)
        IN /\ \A p \in DOMAIN fc :
                 "output" \in DOMAIN fc[p] => Cardinality(C30_Definers(fc[p].output)) = 1
           /\ \A i \in 0..(n - 1) :
                 \E p \in DOMAIN fc :
                    \E q \in DOMAIN fc[p].inputs : fc[p].inputs[q] = Label("v", i)
           /\ Len(xfades) = n - 1
           /\ \A i \in 1..Len(xfades) :
                 /\ C30_DefinedOnceBy(xfades[i].inputs[1], IF i = 1 THEN "trim" ELSE "xfade")
                 /\ C30_DefinedOnceBy(xfades[i].inputs[2], "trim")
           /\ C30_DefinedOnceBy(Label("v", n - 1), IF n = 1 THEN "trim" ELSE "xfade")

====
